---- MODULE Spec2Model ----
(***************************************************************************)
(* Model of ims-service-utils: the IMS resource client (class IMS), the    *)
(* UAA token provider (class UAA), the generic forwarding middleware and   *)
(* the IMS middleware built on it.                                         *)
(*                                                                         *)
(* Strings are TLA+ strings and template literals are concatenations, so   *)
(* every URL and header value is computed the way the code computes it.    *)
(* An optional value (undefined in JavaScript) is a sequence of length 0   *)
(* or 1.                                                                   *)
(***************************************************************************)
EXTENDS Integers, Sequences, FiniteSets, TLC

VARIABLES
    ims,                \* the IMS instance: the fields the constructor sets
    ops,                \* ops[o]: one invocation of a ResourceClient operation
    mwConfig,           \* what imsMiddleware(props) hands to genericMiddleware
    additionalHeaders,  \* the header object captured by genericMiddleware
    mw,                 \* mw[r]: one incoming request to the middleware
    uaaClientCalls      \* log of the calls made to uaaClient.getToken

vars == <<ims, ops, mwConfig, additionalHeaders, mw, uaaClientCalls>>

---------------------------------------------------------------------------
(* Bounds *)

\* Total number of client operations and incoming middleware requests started
\* in one behaviour; all of them can be in flight at once.
MaxStarted == 2

Ops == 1..MaxStarted
Reqs == 1..MaxStarted

---------------------------------------------------------------------------
(* Inputs *)

None == <<>>
Some(x) == <<x>>

CollNames == {"roads"}
FeatureIds == {"42"}
Operators == {"nearest"}
Bodies == {"{geojson}"}

\* What the token endpoint can answer with.
Tokens ==
    {[access_token |-> "T", token_type |-> "bearer"],
     [access_token |-> "U", token_type |-> "bearer"]}
TokenErrors == {"Error getting token: 401"}

\* What the resource API can answer with, and how the transport can fail.
Responses ==
    {[statusCode |-> 200, statusMessage |-> "OK", body |-> "[]"],
     [statusCode |-> 403, statusMessage |-> "Forbidden", body |-> "{error:forbidden}"],
     [statusCode |-> 500, statusMessage |-> "Internal Server Error", body |-> "oops"]}
TransportErrors == {"Invalid URI"}

\* The base URLs the embedding application configures: the client is given
\* one, the middleware is left with the default.
ClientImsUrl == Some("https://ims.test")
MwImsUrl == None

PredixZoneId == "zone-1"
SubtenantId == "sub-1"
UaaInstanceId == "36b8dd23"
ClientId == "id"
ClientSecret == "secret"

\* Incoming requests: the part of the path matched by the route's wildcard.
ReqMethods == {"GET", "POST"}
ReqParams == {"v1/collections", "v1/collections/roads"}

---------------------------------------------------------------------------
(* uaa.js *)

UAA(url, id, secret) == [url |-> url, id |-> id, secret |-> secret]

\* A cached variant: only the first call reaches the token endpoint.
getTokenCached(uaa, log) ==
    IF log # <<>> THEN log ELSE Append(log, <<uaa.url, uaa.id, uaa.secret>>)

\* UAA.getToken: every call is delegated to uaaClient.getToken.
getToken(uaa, log) == Append(log, <<uaa.url, uaa.id, uaa.secret>>)

\* The promise getToken returns.
Pending == [state |-> "pending", value |-> None, reason |-> None]
Fulfilled(v) == [state |-> "fulfilled", value |-> Some(v), reason |-> None]
Rejected(e) == [state |-> "rejected", value |-> None, reason |-> Some(e)]

---------------------------------------------------------------------------
(* The IMS class *)

defaultImsUrlIMS == "https://intelligent-mapping-prod.run.aws-usw02-pr.ice.predix.io"

IMS(uaa, predixZoneId, subtenantId, imsUrl) ==
    [uaa |-> uaa,
     predixZoneId |-> predixZoneId,
     subtenantId |-> subtenantId,
     imsUrl |-> IF imsUrl = None THEN defaultImsUrlIMS ELSE imsUrl[1]]

\* makeRequest(uri, method, body) as called by get / post / put.
get(uri) == [uri |-> uri, method |-> "GET", body |-> None]
post(uri, body) == [uri |-> uri, method |-> "POST", body |-> Some(body)]
put(uri, body) == [uri |-> uri, method |-> "PUT", body |-> Some(body)]

getCollections == get("collections")
getCollection(collName) == get("collections/" \o collName)
postCollection(collName, body) == post("collections/" \o collName, body)
spatialQuery(collName, operator, body) ==
    post("collections/" \o collName \o "/spatial-query?operator=" \o operator, body)

\* Variant that puts the feature id in the path.
getFeaturesByPath(collName, featureId) ==
    get("collections/" \o collName \o "/features/" \o featureId)

getFeatures(collName, featureId) ==
    get("collections/" \o collName \o "/features?id=" \o featureId)
updateFeatures(collName, featureId, body) ==
    put("collections/" \o collName \o "/features?id=" \o featureId, body)

\* The invocations a caller can make: the operation, its arguments and the
\* makeRequest call it leads to.
Invocations ==
    {[op |-> "getCollections", args |-> <<>>, call |-> getCollections]}
    \cup {[op |-> "getCollection", args |-> <<n>>, call |-> getCollection(n)] :
            n \in CollNames}
    \cup {[op |-> "postCollection", args |-> <<n, b>>, call |-> postCollection(n, b)] :
            n \in CollNames, b \in Bodies}
    \cup {[op |-> "spatialQuery", args |-> <<n, q, b>>, call |-> spatialQuery(n, q, b)] :
            n \in CollNames, q \in Operators, b \in Bodies}
    \cup {[op |-> "getFeatures", args |-> <<n, f>>, call |-> getFeatures(n, f)] :
            n \in CollNames, f \in FeatureIds}
    \cup {[op |-> "updateFeatures", args |-> <<n, f, b>>, call |-> updateFeatures(n, f, b)] :
            n \in CollNames, f \in FeatureIds, b \in Bodies}

\* Variant with the two tenant headers interchanged.
makeRequestHeadersSwapped(self, token) ==
    [authorization |-> "Bearer " \o token.access_token,
     x_subtenant_id |-> self.predixZoneId,
     predix_zone_id |-> self.subtenantId]

\* The headers object of makeRequest ('x-subtenant-id' and 'predix-zone-id'
\* are written with underscores as record fields).
makeRequestHeaders(self, token) ==
    [authorization |-> "Bearer " \o token.access_token,
     x_subtenant_id |-> self.subtenantId,
     predix_zone_id |-> self.predixZoneId]

\* The arguments of this.request(...) in makeRequest.
makeRequestOptions(self, call, token) ==
    [url |-> self.imsUrl \o "/v1/" \o call.uri,
     method |-> call.method,
     body |-> call.body,
     json |-> TRUE,
     headers |-> makeRequestHeaders(self, token)]

\* The object makeRequest returns.
makeRequestReturn(response) ==
    [statusCode |-> response.statusCode, body |-> response.body]

\* An operation nobody has invoked yet. fetches counts its getToken calls,
\* requests logs its calls to this.request.
IdleOp ==
    [pc |-> "idle", op |-> "", args |-> <<>>, call |-> get(""),
     fetches |-> 0, token |-> Pending, requests |-> <<>>,
     response |-> None, result |-> None, error |-> None]

\* Variant that swallows the reason and goes on without a token.
onTokenRejectedSwallow(self, o, e) ==
    [o EXCEPT !.pc = "awaitingResponse", !.token = Rejected(e),
              !.requests = Append(@, makeRequestOptions(self, o.call,
                                        [access_token |-> "undefined"]))]

\* `yield this.uaa.getToken()` throws into the generator, which has no
\* handler: the operation rejects with the reason of the token promise.
onTokenRejected(self, o, e) ==
    [o EXCEPT !.pc = "rejected", !.token = Rejected(e), !.error = Some(e)]

\* The token promise fulfils: the generator resumes and issues the call.
onTokenFulfilled(self, o, t) ==
    [o EXCEPT !.pc = "awaitingResponse", !.token = Fulfilled(t),
              !.requests = Append(@, makeRequestOptions(self, o.call, t))]

\* Variant that throws on a status code of 400 or more.
onResponseThrowOnError(o, response) ==
    IF response.statusCode >= 400
    THEN [o EXCEPT !.pc = "rejected", !.response = Some(response),
                   !.error = Some(response.statusMessage)]
    ELSE [o EXCEPT !.pc = "resolved", !.response = Some(response),
                   !.result = Some(makeRequestReturn(response))]

\* The transport completes with a response, whatever its status code.
onResponse(o, response) ==
    [o EXCEPT !.pc = "resolved", !.response = Some(response),
              !.result = Some(makeRequestReturn(response))]

\* Variant that issues the call again after a transport failure.
onTransportErrorRetry(o, e) ==
    IF Len(o.requests) < 2
    THEN [o EXCEPT !.requests = Append(@, o.requests[1])]
    ELSE [o EXCEPT !.pc = "rejected", !.error = Some(e)]

\* `yield this.request(...)` throws into the generator: the operation rejects.
onTransportError(o, e) ==
    [o EXCEPT !.pc = "rejected", !.error = Some(e)]

---------------------------------------------------------------------------
(* generic-middleware and ims-middleware.js *)

defaultImsUrl == "https://intelligent-mapping-prod.run.aws-usw02-pr.ice.predix.io"
uaaUrlTail == ".predix-uaa.run.aws-usw02-pr.ice.predix.io/oauth/token"

\* imsMiddleware(props): the arguments of genericMiddleware(uaa, headers, url),
\* and the route the resulting middleware('/*') is mounted on.
imsMiddleware(props) ==
    [headers |-> ("Predix-Zone-Id" :> props.predixZoneId)
                 @@ ("x-subtenant-id" :> props.subtenantId)
                 @@ ("content-type" :> "application/json"),
     uaa |-> UAA(IF props.uaaUrl = None
                 THEN "https://" \o props.uaaInstanceId \o uaaUrlTail
                 ELSE props.uaaUrl[1],
                 props.clientId, props.clientSecret),
     url |-> IF props.imsUrl = None THEN defaultImsUrl ELSE props.imsUrl[1],
     route |-> "/*",
     uri |-> "/*"]

\* let headers = {}; Object.assign(headers, additionalHeaders);
\* headers['Authorization'] = `Bearer ${token.access_token}`
mergeHeaders(staticHeaders, token) ==
    [k \in DOMAIN staticHeaders \cup {"Authorization"} |->
        IF k = "Authorization"
        THEN "Bearer " \o token.access_token
        ELSE staticHeaders[k]]

\* Variant that merges into the captured object instead of a fresh one.
assignTargetInPlace(staticHeaders, token) == mergeHeaders(staticHeaders, token)

\* The captured additionalHeaders after the callback ran: Object.assign
\* writes to the fresh object, so the captured one is as it was.
assignTarget(staticHeaders, token) == staticHeaders

\* Variant that forwards to the bare target URL.
proxyOptionsNoUri(url, uri, headers) == [url |-> url, headers |-> headers]

\* The options handed to requestProxy.
proxyOptions(url, uri, headers) == [url |-> url \o uri, headers |-> headers]

\* Variant that keeps the first token any request obtained.
thenTokenShared(requests, r) ==
    LET have == {q \in DOMAIN requests : requests[q].token.state = "fulfilled"}
    IN  requests[CHOOSE q \in have : \A p \in have : q <= p].token.value[1]

\* The token the callback of uaa.getToken().then(...) receives: the value
\* the promise of this request was fulfilled with.
thenToken(requests, r) == requests[r].token.value[1]

\* A request that has not arrived yet. proxied logs the hand-offs to
\* requestProxy; resStatus and nextCalled are what the middleware itself did
\* to res and next.
IdleReq ==
    [pc |-> "idle", req |-> [method |-> "", route |-> "", param |-> ""],
     token |-> Pending, proxied |-> <<>>, resStatus |-> None,
     nextCalled |-> FALSE]

---------------------------------------------------------------------------
(* State machine *)

Props(imsUrl) ==
    [predixZoneId |-> PredixZoneId, subtenantId |-> SubtenantId,
     clientId |-> ClientId, clientSecret |-> ClientSecret,
     uaaInstanceId |-> UaaInstanceId, uaaUrl |-> None, imsUrl |-> imsUrl]

Init ==
    /\ mwConfig = imsMiddleware(Props(MwImsUrl))
    /\ ims = IMS(mwConfig.uaa, PredixZoneId, SubtenantId, ClientImsUrl)
    /\ additionalHeaders = mwConfig.headers
    /\ ops = [o \in Ops |-> IdleOp]
    /\ mw = [r \in Reqs |-> IdleReq]
    /\ uaaClientCalls = <<>>

Started ==
    Cardinality({o \in Ops : ops[o].pc # "idle"})
    + Cardinality({r \in Reqs : mw[r].pc # "idle"})

\* A caller invokes an operation: makeRequest runs up to its first yield.
OpCall(o, inv) ==
    /\ ops[o].pc = "idle"
    /\ o > 1 => ops[o - 1].pc # "idle"
    /\ Started < MaxStarted
    /\ uaaClientCalls' = getToken(ims.uaa, uaaClientCalls)
    /\ ops' = [ops EXCEPT ![o] = [@ EXCEPT !.pc = "awaitingToken",
                                           !.fetches = @ + 1,
                                           !.op = inv.op, !.args = inv.args,
                                           !.call = inv.call]]
    /\ UNCHANGED <<ims, mwConfig, additionalHeaders, mw>>

OpTokenFulfilled(o, t) ==
    /\ ops[o].pc = "awaitingToken"
    /\ ops' = [ops EXCEPT ![o] = onTokenFulfilled(ims, @, t)]
    /\ UNCHANGED <<ims, mwConfig, additionalHeaders, mw, uaaClientCalls>>

OpTokenRejected(o, e) ==
    /\ ops[o].pc = "awaitingToken"
    /\ ops' = [ops EXCEPT ![o] = onTokenRejected(ims, @, e)]
    /\ UNCHANGED <<ims, mwConfig, additionalHeaders, mw, uaaClientCalls>>

OpResponse(o, response) ==
    /\ ops[o].pc = "awaitingResponse"
    /\ ops' = [ops EXCEPT ![o] = onResponse(@, response)]
    /\ UNCHANGED <<ims, mwConfig, additionalHeaders, mw, uaaClientCalls>>

OpTransportError(o, e) ==
    /\ ops[o].pc = "awaitingResponse"
    /\ ops' = [ops EXCEPT ![o] = onTransportError(@, e)]
    /\ UNCHANGED <<ims, mwConfig, additionalHeaders, mw, uaaClientCalls>>

\* A request arrives at the mounted middleware: uaa.getToken().then(...)
MwRequest(r, method, param) ==
    /\ mw[r].pc = "idle"
    /\ r > 1 => mw[r - 1].pc # "idle"
    /\ Started < MaxStarted
    /\ uaaClientCalls' = getToken(mwConfig.uaa, uaaClientCalls)
    /\ mw' = [mw EXCEPT ![r] = [@ EXCEPT !.pc = "awaitingToken",
                                        !.req = [method |-> method,
                                                 route |-> mwConfig.route,
                                                 param |-> param]]]
    /\ UNCHANGED <<ims, ops, mwConfig, additionalHeaders>>

MwTokenFulfilled(r, t) ==
    /\ mw[r].pc = "awaitingToken"
    /\ mw[r].token.state = "pending"
    /\ mw' = [mw EXCEPT ![r].token = Fulfilled(t)]
    /\ UNCHANGED <<ims, ops, mwConfig, additionalHeaders, uaaClientCalls>>

\* The promise rejects. Only a fulfilment callback is registered, so nothing
\* of the middleware runs: the response and next are left untouched.
MwTokenRejected(r, e) ==
    /\ mw[r].pc = "awaitingToken"
    /\ mw[r].token.state = "pending"
    /\ mw' = [mw EXCEPT ![r].token = Rejected(e)]
    /\ UNCHANGED <<ims, ops, mwConfig, additionalHeaders, uaaClientCalls>>

\* The fulfilment callback: merge the headers and hand (req, res, next) to
\* the reverse proxy.
MwThen(r) ==
    /\ mw[r].pc = "awaitingToken"
    /\ mw[r].token.state = "fulfilled"
    /\ LET token == thenToken(mw, r)
           headers == mergeHeaders(additionalHeaders, token)
       IN  /\ additionalHeaders' = assignTarget(additionalHeaders, token)
           /\ mw' = [mw EXCEPT ![r] =
                        [@ EXCEPT !.pc = "forwarding",
                                  !.proxied = Append(@,
                                      [options |-> proxyOptions(mwConfig.url,
                                                       mwConfig.uri, headers),
                                       req |-> mw[r].req])]]
    /\ UNCHANGED <<ims, ops, mwConfig, uaaClientCalls>>

Next ==
    \/ \E o \in Ops, inv \in Invocations : OpCall(o, inv)
    \/ \E o \in Ops, t \in Tokens : OpTokenFulfilled(o, t)
    \/ \E o \in Ops, e \in TokenErrors : OpTokenRejected(o, e)
    \/ \E o \in Ops, response \in Responses : OpResponse(o, response)
    \/ \E o \in Ops, e \in TransportErrors : OpTransportError(o, e)
    \/ \E r \in Reqs, m \in ReqMethods, p \in ReqParams : MwRequest(r, m, p)
    \/ \E r \in Reqs, t \in Tokens : MwTokenFulfilled(r, t)
    \/ \E r \in Reqs, e \in TokenErrors : MwTokenRejected(r, e)
    \/ \E r \in Reqs : MwThen(r)

Spec == Init /\ [][Next]_vars

---------------------------------------------------------------------------
(* Properties *)

\* C1: whenever the transport has completed an operation's call with a
\* response, whatever its status code, the operation is resolved with a
\* Result holding exactly that status code and body, and has no error.
C1_StatusNeverRejects ==
    \A o \in Ops :
        ops[o].response # None =>
            /\ ops[o].pc = "resolved"
            /\ ops[o].error = None
            /\ ops[o].result = Some([statusCode |-> ops[o].response[1].statusCode,
                                     body |-> ops[o].response[1].body])

C1_Witness ==
    \E o \in Ops :
        /\ ops[o].pc = "resolved"
        /\ ops[o].token.state = "fulfilled"
        /\ ops[o].result = Some([statusCode |-> 500, body |-> "oops"])

\* C2: an operation whose token promise rejected is rejected with the reason
\* of that promise and has issued no outbound call.
C2_TokenFailurePropagates ==
    \A o \in Ops :
        ops[o].token.state = "rejected" =>
            /\ ops[o].pc = "rejected"
            /\ ops[o].error = ops[o].token.reason
            /\ ops[o].requests = <<>>
            /\ ops[o].result = None

C2_Witness ==
    \E o \in Ops :
        /\ ops[o].token.state = "rejected"
        /\ ops[o].error = Some("Error getting token: 401")

\* C3: a middleware request whose token promise rejected is in the Failed
\* state: the response is completed with a 5xx status and next was called.
C3_RejectedTokenFails ==
    \A r \in Reqs :
        mw[r].token.state = "rejected" =>
            /\ mw[r].pc = "failed"
            /\ mw[r].resStatus # None
            /\ mw[r].resStatus[1] \in 500..599
            /\ mw[r].nextCalled

\* C4: the token endpoint client has been called once per started operation
\* or middleware request, and two resolved operations that made the same GET
\* call and got the same response hold the same Result.
C4_NoTokenCaching ==
    /\ Len(uaaClientCalls) = Started
    /\ \A a, b \in Ops :
          /\ ops[a].pc = "resolved"
          /\ ops[b].pc = "resolved"
          /\ ops[a].call = ops[b].call
          /\ ops[a].response = ops[b].response
          => ops[a].result = ops[b].result

C4_Witness ==
    /\ Len(uaaClientCalls) = 2
    /\ \E a, b \in Ops :
          /\ a # b
          /\ ops[a].pc = "resolved"
          /\ ops[b].pc = "resolved"
          /\ ops[a].call.method = "GET"
          /\ ops[a].call = ops[b].call
          /\ ops[a].response = ops[b].response

\* The catalog of operations: method, path under <base>/v1/ and body.
Catalog(op, args) ==
    CASE op = "getCollections" ->
            [method |-> "GET", path |-> "collections", body |-> None]
      [] op = "getCollection" ->
            [method |-> "GET", path |-> "collections/" \o args[1], body |-> None]
      [] op = "postCollection" ->
            [method |-> "POST", path |-> "collections/" \o args[1],
             body |-> Some(args[2])]
      [] op = "spatialQuery" ->
            [method |-> "POST",
             path |-> "collections/" \o (args[1] \o ("/spatial-query?operator=" \o args[2])),
             body |-> Some(args[3])]
      [] op = "getFeatures" ->
            [method |-> "GET",
             path |-> "collections/" \o (args[1] \o ("/features?id=" \o args[2])),
             body |-> None]
      [] op = "updateFeatures" ->
            [method |-> "PUT",
             path |-> "collections/" \o (args[1] \o ("/features?id=" \o args[2])),
             body |-> Some(args[3])]

\* C5: an operation issues at most one outbound call, exactly one once its
\* token is there, and that call has the method, URL and body of the catalog.
C5_CatalogRequests ==
    \A o \in Ops :
        /\ Len(ops[o].requests) <= 1
        /\ ops[o].pc \in {"awaitingResponse", "resolved"} =>
            /\ Len(ops[o].requests) = 1
            /\ LET sent == ops[o].requests[1]
                   want == Catalog(ops[o].op, ops[o].args)
               IN  /\ sent.method = want.method
                   /\ sent.url = ims.imsUrl \o ("/v1/" \o want.path)
                   /\ sent.body = want.body
                   /\ (ims.imsUrl = "https://ims.test"
                        /\ ops[o].op = "getFeatures"
                        /\ ops[o].args = <<"roads", "42">>)
                      => sent.url = "https://ims.test/v1/collections/roads/features?id=42"
                   /\ (ims.imsUrl = "https://ims.test"
                        /\ ops[o].op = "spatialQuery"
                        /\ ops[o].args = <<"roads", "nearest", "{geojson}">>)
                      => /\ sent.url = "https://ims.test/v1/collections/roads/spatial-query?operator=nearest"
                         /\ sent.body = Some("{geojson}")

C5_Witness ==
    \E a, b \in Ops :
        /\ ops[a].op = "getFeatures"
        /\ ops[a].args = <<"roads", "42">>
        /\ ops[a].pc = "resolved"
        /\ ops[b].op = "spatialQuery"
        /\ ops[b].pc = "awaitingResponse"

C8_IndependentRequests ==
    \A r \in Reqs :
        /\ (mw[r].pc = "awaitingToken" /\ mw[r].token.state = "pending")
            => \A t \in Tokens : ENABLED MwTokenFulfilled(r, t)
        /\ (mw[r].pc = "awaitingToken" /\ mw[r].token.state = "fulfilled")
            => ENABLED MwThen(r)
        /\ mw[r].pc = "forwarding" =>
            mw[r].proxied[1].options.headers["Authorization"]
                = "Bearer " \o mw[r].token.value[1].access_token

C8_Witness ==
    \E r, q \in Reqs :
        /\ r < q
        /\ mw[r].pc = "awaitingToken"
        /\ mw[r].token.state = "fulfilled"
        /\ mw[q].pc = "forwarding"
        /\ mw[q].token.value # mw[r].token.value

\* C9: an operation that has issued its outbound call has its own token
\* promise fulfilled, and the call carries "Bearer " + that token together
\* with the subtenant id and zone id the client was constructed with.
C9_OwnTokenAndTenantHeaders ==
    \A o \in Ops :
        ops[o].requests # <<>> =>
            /\ ops[o].token.state = "fulfilled"
            /\ \A i \in 1..Len(ops[o].requests) :
                ops[o].requests[i].headers =
                    [authorization |-> "Bearer " \o ops[o].token.value[1].access_token,
                     x_subtenant_id |-> SubtenantId,
                     predix_zone_id |-> PredixZoneId]

C9_Witness ==
    \E a, b \in Ops :
        /\ a < b
        /\ ops[a].pc = "awaitingToken"
        /\ ops[b].requests # <<>>
        /\ ops[b].requests[1].headers.authorization = "Bearer U"

\* C10: the captured additionalHeaders object is what imsMiddleware built;
\* it never gets an Authorization entry.
C10_StaticHeadersUntouched ==
    /\ additionalHeaders = mwConfig.headers
    /\ DOMAIN additionalHeaders = {"Predix-Zone-Id", "x-subtenant-id", "content-type"}
    /\ additionalHeaders["Predix-Zone-Id"] = PredixZoneId
    /\ additionalHeaders["x-subtenant-id"] = SubtenantId
    /\ additionalHeaders["content-type"] = "application/json"

C10_Witness ==
    \E r, q \in Reqs :
        /\ r # q
        /\ mw[r].pc = "forwarding"
        /\ mw[q].pc = "forwarding"
        /\ mw[r].token.value # mw[q].token.value

====
